---- MODULE Spec2Model ----
(***************************************************************************)
(* Model of the two Ansible modules of ansiquip:                           *)
(*   quip_update_cell  (src/ansiquip/roles/ansiquip/library/               *)
(*                      quip_update_cell.py)                               *)
(*   quip_paste        (src/roles/ansiquip/library/quip_paste.py)          *)
(* One behaviour of the model is one invocation of run_module() of one of  *)
(* the two modules.  Strings are modelled as sequences of tokens (URLs) or *)
(* of characters (anchor ids), Python dicts as sequences of [k, v] pairs   *)
(* in insertion order, the remote Quip service as a nondeterministic       *)
(* choice of the response to every request.                                *)
(***************************************************************************)
EXTENDS Integers, Sequences, FiniteSets, TLC

VARIABLES
    module,            \* "quip_update_cell" or "quip_paste"
    check_mode,        \* module.check_mode
    quip_urls,         \* params["quip_urls"] / params["destination_urls"]
    source_url,        \* params["source_url"] (quip_paste)
    prepend,           \* params["prepend"] (quip_paste)
    quota,             \* remote service: calls left before throttling
    pc,                \* position of run_module
    idx,               \* index of the loop pc is in
    dest_list,         \* _dest_list: the parsed document ids
    src_dict,          \* src_dict (quip_paste)
    get_htmls,         \* get_htmls: dict {doc id: html | "failed"}
    destination_list,  \* destination_list: list of {doc id: anchor id}
    result,            \* the result dict
    exit,              \* how the run ended: exit_json, fail_json, exception
    calls              \* the remote calls issued so far, in order

vars == <<module, check_mode, quip_urls, source_url, prepend, quota, pc, idx,
          dest_list, src_dict, get_htmls, destination_list, result, exit, calls>>

\* Longest list of document references a run is given.
MaxUrls == 2

\* Python's None, and str(None).
None == <<"<None>">>
StrNone == <<"N", "o", "n", "e">>

-----------------------------------------------------------------------------
(* Generic helpers                                                          *)

Range(s) == {s[n] : n \in 1..Len(s)}

SeqsUpTo(S, n) == UNION {[1..m -> S] : m \in 0..n}

\* Python truthiness of a str-or-None value.
Truthy(v) == v # None /\ v # <<>>

\* dict: `k in d`, d[k], d[k] = v (a new key goes last, an old key keeps its place)
DictHas(d, k) == \E n \in 1..Len(d) : d[n].k = k

DictGet(d, k) == d[CHOOSE n \in 1..Len(d) : d[n].k = k].v

\* An assignment that adds an item even when the key is there.
DictAppend(d, k, v) == Append(d, [k |-> k, v |-> v])

DictSet(d, k, v) ==
    IF DictHas(d, k)
    THEN [n \in 1..Len(d) |-> IF d[n].k = k THEN [k |-> k, v |-> v] ELSE d[n]]
    ELSE Append(d, [k |-> k, v |-> v])

-----------------------------------------------------------------------------
(* parse_quip_url                                                           *)

\* The document references the model draws its inputs from, as token lists.
UrlD1   == <<"quip.com", "/", "D1">>
UrlD2   == <<"https://", "team.quip.com", "/", "D2", "/", "name">>
UrlBad  == <<"fail_me">>
UrlRoot == <<"https://", "quip.com", "/">>
UrlHost == <<"https://", "team.quip.com">>

Urls == {UrlD1, UrlD2, UrlBad, UrlRoot, UrlHost}

UrlSrc    == <<"http://", "example.quip.com", "/", "SRC", "/", "file-name">>
UrlFailMe == <<"fail me">>

SourceUrls == {UrlSrc, UrlFailMe}

\* "://" in url, url.startswith("/"), "quip.com" in url
HasScheme(url) == \E n \in 1..Len(url) : url[n] \in {"https://", "http://"}

StartsWithSlash(url) == Len(url) > 0 /\ url[1] = "/"

HasQuipCom(url) ==
    \E n \in 1..Len(url) : url[n] \in {"quip.com", "team.quip.com", "example.quip.com"}

\* urlsplit(url).netloc and .path
Netloc(url) ==
    IF Len(url) >= 2 /\ url[1] \in {"https://", "http://"} /\ url[2] # "/"
    THEN url[2] ELSE ""

UrlPath(url) ==
    IF Len(url) >= 1 /\ url[1] \in {"https://", "http://"}
    THEN (IF Len(url) >= 2 /\ url[2] # "/" THEN SubSeq(url, 3, Len(url))
                                           ELSE SubSeq(url, 2, Len(url)))
    ELSE url

\* path.split("/"): the segments between the slashes, empty ones included
RECURSIVE SplitFrom(_, _, _)
SplitFrom(path, n, cur) ==
    IF n > Len(path) THEN <<cur>>
    ELSE IF path[n] = "/" THEN <<cur>> \o SplitFrom(path, n + 1, "")
    ELSE SplitFrom(path, n + 1, path[n])

Split(path) == SplitFrom(path, 1, "")

\* parse_quip_url(url): [raises |-> TRUE] for the IndexError of split("/")[1],
\* else the pair (base, document_id), None where the code leaves None.
parse_quip_url(url0) ==
    LET url == IF ~HasScheme(url0) /\ ~StartsWithSlash(url0)
               THEN <<"https://">> \o url0 ELSE url0
    IN  IF HasQuipCom(url)
        THEN LET segs == Split(UrlPath(url))
             IN  IF Len(segs) < 2
                 THEN [raises |-> TRUE, base |-> "", id |-> ""]
                 ELSE [raises |-> FALSE, base |-> Netloc(url), id |-> segs[2]]
        ELSE [raises |-> FALSE, base |-> "<None>", id |-> "<None>"]

\* `_dest[0] and _dest[1]`
Resolved(p) == ~p.raises /\ p.base \notin {"", "<None>"} /\ p.id \notin {"", "<None>"}

-----------------------------------------------------------------------------
(* Markup: BeautifulSoup(html, "html.parser") and the tree searches         *)

\* A parsed document is its nodes in document order; parent 0 is the root.
El(tag, parent, id) == [tag |-> tag, parent |-> parent, id |-> id, text |-> ""]

Txt(parent, text) == [tag |-> "#text", parent |-> parent, id |-> None, text |-> text]

\* The markups the remote service may hold, by the name that stands for the
\* html string; "" is the empty string.
CellMarkups ==
    {"CellHit", "CellSemi", "NoTarget", "OutsideCell", "CellNoSpan", "SpanNoId",
     "ElsewhereFirst", "OtherSpan"}

HeadingMarkups == {"H1Hit", "H2Only", "H3Hit", "HeadNoId", "ParaThenH2"}

Markups == CellMarkups \cup HeadingMarkups

BeautifulSoup(html) ==
    CASE html = "CellHit" ->
           <<El("td", 0, None), El("span", 1, <<"s", "1">>), Txt(2, "target")>>
      [] html = "CellSemi" ->
           <<El("td", 0, None), El("span", 1, <<"a", ";", "b", ";", "c">>),
             Txt(2, "target")>>
      [] html = "NoTarget" ->
           <<El("td", 0, None), El("span", 1, <<"s", "1">>), Txt(2, "target value"),
             El("h1", 0, <<"h", "1">>), Txt(4, "other")>>
      [] html = "OutsideCell" ->
           <<El("p", 0, None), Txt(1, "target")>>
      [] html = "CellNoSpan" ->
           <<El("td", 0, None), Txt(1, "target")>>
      [] html = "SpanNoId" ->
           <<El("td", 0, None), El("span", 1, None), Txt(2, "target")>>
      [] html = "ElsewhereFirst" ->
           <<El("p", 0, None), Txt(1, "target"),
             El("td", 0, None), El("span", 3, <<"s", "1">>), Txt(4, "target")>>
      [] html = "OtherSpan" ->
           <<El("td", 0, None), El("span", 1, None), Txt(2, "x"),
             El("span", 1, <<"s", "1">>), Txt(4, "target")>>
      [] html = "H1Hit" ->
           <<El("h1", 0, <<"h", "1">>), Txt(1, "target")>>
      [] html = "H2Only" ->
           <<El("h1", 0, <<"h", "1">>), Txt(1, "other"),
             El("h2", 0, <<"h", "2">>), Txt(3, "target")>>
      [] html = "H3Hit" ->
           <<El("h3", 0, <<"h", "3">>), Txt(1, "target")>>
      [] html = "HeadNoId" ->
           <<El("h2", 0, None), Txt(1, "target")>>
      [] html = "ParaThenH2" ->
           <<El("p", 0, None), Txt(1, "target"),
             El("h2", 0, <<"h", "2">>), Txt(3, "target")>>
      [] OTHER -> <<>>

\* soup.find(string=s): the first node whose text is exactly s; 0 is None
FindString(tree, s) ==
    LET hits == {n \in 1..Len(tree) : tree[n].tag = "#text" /\ tree[n].text = s}
    IN  IF hits = {} THEN 0 ELSE CHOOSE n \in hits : \A m \in hits : n <= m

\* node.find_parent(tag): the nearest ancestor with that tag; 0 is None
RECURSIVE FindParent(_, _, _)
FindParent(tree, n, tag) ==
    LET p == tree[n].parent
    IN  IF p = 0 THEN 0
        ELSE IF tree[p].tag = tag THEN p
        ELSE FindParent(tree, p, tag)

RECURSIVE IsDescendant(_, _, _)
IsDescendant(tree, n, a) ==
    LET p == tree[n].parent
    IN  IF p = 0 THEN FALSE
        ELSE IF p = a THEN TRUE
        ELSE IsDescendant(tree, p, a)

\* node.find(tag): the first descendant with that tag; 0 is None
FindTag(tree, a, tag) ==
    LET hits == {n \in 1..Len(tree) : tree[n].tag = tag /\ IsDescendant(tree, n, a)}
    IN  IF hits = {} THEN 0 ELSE CHOOSE n \in hits : \A m \in hits : n <= m

\* str(x)
Str(v) == IF v = None THEN StrNone ELSE v

\* get_cell_id(html, findstring): a str, or None after the AttributeError of
\* calling a method on None
get_cell_id(html, findstring) ==
    LET parse_soup == BeautifulSoup(html)
        string_location == FindString(parse_soup, findstring)
    IN  IF string_location = 0 THEN None
        ELSE LET td == FindParent(parse_soup, string_location, "td")
             IN  IF td = 0 THEN None
                 ELSE LET span == FindTag(parse_soup, td, "span")
                      IN  IF span = 0 THEN None
                          ELSE Str(parse_soup[span].id)

\* One try block of run_module's heading search:
\* BeautifulSoup(v).find(string=target_header).find_parent(h).get("id")
HeadingTry(html, target_header, h) ==
    LET soup == BeautifulSoup(html)
        loc == FindString(soup, target_header)
    IN  IF loc = 0 THEN [raised |-> TRUE, id |-> None]
        ELSE LET hd == FindParent(soup, loc, h)
             IN  IF hd = 0 THEN [raised |-> TRUE, id |-> None]
                 ELSE [raised |-> FALSE, id |-> soup[hd].id]

\* The search that stops after the level-1 try.
HeadingLookupNoFallback(html, target_header) == HeadingTry(html, target_header, "h1")

\* The nested try/excepts over h1, h2, h3
HeadingLookup(html, target_header) ==
    LET t1 == HeadingTry(html, target_header, "h1")
        t2 == HeadingTry(html, target_header, "h2")
        t3 == HeadingTry(html, target_header, "h3")
    IN  IF ~t1.raised THEN t1
        ELSE IF ~t2.raised THEN t2
        ELSE t3

\* soup.find(name): the first element with that tag name; 0 is None
FindName(tree, name) ==
    LET hits == {n \in 1..Len(tree) : tree[n].tag = name}
    IN  IF hits = {} THEN 0 ELSE CHOOSE n \in hits : \A m \in hits : n <= m

\* parse_quipHTML(html, target_header), which run_module never calls: the
\* query "string='<target_header>'" is handed to find() as a tag name.
parse_quipHTML(html, target_header) ==
    LET soup == BeautifulSoup(html)
        query == "string='" \o target_header \o "'"
        header_section == FindName(soup, query)
    IN  IF header_section = 0 THEN None
        ELSE LET h1 == FindParent(soup, header_section, "h1")
                 h2 == FindParent(soup, header_section, "h2")
             IN  IF h1 # 0 THEN soup[h1].id
                 ELSE IF h2 # 0 THEN soup[h2].id
                 ELSE None

-----------------------------------------------------------------------------
(* The remote service                                                       *)

\* params["find"] / params["target_header"]
Target == "target"

\* The threshold of `int(headers['X-Ratelimit-Remaining']) < 10`
RateLimitFloor == 10

\* X-Ratelimit-Remaining before the first call of the run; every call uses one.
InitialQuotas == {9, 11, 20}

\* Retry-After, in seconds
RetryAfters == {2}

\* GET /2/threads/<id>/html: a JSON body with or without "html", an HTTP error
\* status (urlopen raises HTTPError), or no answer at all (URLError, timeout).
FetchResponses ==
    {[kind |-> "response", code |-> 200, has_html |-> TRUE, html |-> m] :
         m \in Markups \cup {""}}
    \cup {[kind |-> "response", code |-> 200, has_html |-> FALSE, html |-> ""],
          [kind |-> "HTTPError", code |-> 404, has_html |-> FALSE, html |-> ""],
          [kind |-> "URLError", code |-> 0, has_html |-> FALSE, html |-> ""]}

\* POST edit-document / live-paste: a 2xx answer with a JSON body (a thread
\* object, or an empty one), an HTTP error status whose body does or does not
\* carry "error_description", or no answer at all.
PostResponses ==
    {[kind |-> "response", code |-> 200, json |-> "thread", desc |-> FALSE, has_html |-> FALSE],
     [kind |-> "response", code |-> 200, json |-> "empty", desc |-> FALSE, has_html |-> FALSE],
     [kind |-> "response", code |-> 202, json |-> "thread", desc |-> FALSE, has_html |-> FALSE],
     [kind |-> "HTTPError", code |-> 400, json |-> "error", desc |-> TRUE, has_html |-> FALSE],
     [kind |-> "HTTPError", code |-> 400, json |-> "error", desc |-> FALSE, has_html |-> FALSE],
     [kind |-> "URLError", code |-> 0, json |-> "", desc |-> FALSE, has_html |-> FALSE]}

\* The record kept of one remote call: the request and what came back.
Call(op, id, resp, remaining, retry, slept, section, location, src) ==
    [op |-> op, id |-> id, kind |-> resp.kind, code |-> resp.code,
     has_html |-> (op = "fetch" /\ resp.kind = "response" /\ resp.has_html),
     remaining |-> remaining, retry_after |-> retry, slept |-> slept,
     section_id |-> section, location |-> location, source_thread_id |-> src]

Spend(q) == IF q > 0 THEN q - 1 ELSE 0

-----------------------------------------------------------------------------
(* run_module                                                               *)

UpdateCell == "quip_update_cell"
Paste == "quip_paste"

\* An entry of result["successful"] / result["unsuccessful"]: the string the
\* code appends (label) and the classification of the document (reason),
\* which the code does not store.
Entry(label, reason) == [label |-> label, reason |-> reason]

\* result[...].append(x)
AppendTo(list, e) == Append(list, e)

\* exit_json / fail_json / an exception leaving run_module
Running == [via |-> "running", msg |-> ""]

ExitJson == [via |-> "exit_json", msg |-> ""]

FailJson(msg) == [via |-> "fail_json", msg |-> msg]

Raise(exc) == [via |-> "exception", msg |-> exc]

Init ==
    /\ module \in {UpdateCell, Paste}
    /\ check_mode \in BOOLEAN
    /\ quip_urls \in SeqsUpTo(Urls, MaxUrls)
    /\ source_url \in (IF module = Paste THEN SourceUrls ELSE {<<>>})
    /\ prepend \in (IF module = Paste THEN BOOLEAN ELSE {FALSE})
    /\ quota \in InitialQuotas
    /\ pc = "check_mode"
    /\ idx = 1
    /\ dest_list = <<>>
    /\ src_dict = [base |-> "", id |-> ""]
    /\ get_htmls = <<>>
    /\ destination_list = <<>>
    /\ result = [changed |-> FALSE, original_message |-> "", unsuccessful |-> <<>>,
                 successful |-> <<>>, message |-> [count |-> 0, total |-> 0, text |-> ""]]
    /\ exit = Running
    /\ calls = <<>>

\* if module.check_mode: module.exit_json(**result)
CheckMode ==
    /\ pc = "check_mode"
    /\ IF check_mode
       THEN /\ exit' = ExitJson
            /\ pc' = "done"
       ELSE /\ exit' = exit
            /\ pc' = "parse_dest"
    /\ UNCHANGED <<module, check_mode, quip_urls, source_url, prepend, quota, idx,
                   dest_list, src_dict, get_htmls, destination_list, result, calls>>

\* for dest_url in quip_urls: one iteration
ParseDest ==
    /\ pc = "parse_dest"
    /\ idx <= Len(quip_urls)
    /\ LET dest_url == quip_urls[idx]
           dest == parse_quip_url(dest_url)
       IN  IF dest.raises
           THEN /\ exit' = Raise("IndexError")
                /\ pc' = "done"
                /\ UNCHANGED <<idx, dest_list, result>>
           ELSE /\ IF Resolved(dest)
                   THEN /\ dest_list' = Append(dest_list, dest.id)
                        /\ result' = result
                   ELSE /\ result' = [result EXCEPT !.unsuccessful =
                               AppendTo(@, Entry(dest_url, "ReferenceUnparseable"))]
                        /\ dest_list' = dest_list
                /\ idx' = idx + 1
                /\ UNCHANGED <<pc, exit>>
    /\ UNCHANGED <<module, check_mode, quip_urls, source_url, prepend, quota,
                   src_dict, get_htmls, destination_list, calls>>

\* quip_update_cell: if not _dest_list: fail_json(...) else: original_message
NoDestinations ==
    /\ module = UpdateCell
    /\ pc = "parse_dest"
    /\ idx > Len(quip_urls)
    /\ IF dest_list = <<>>
       THEN /\ result' = [result EXCEPT !.original_message =
                              "Failed to identify Quip document ID(s)"]
            /\ exit' = FailJson("The Quip document IDs could not be parsed from provided URLs")
            /\ pc' = "done"
            /\ idx' = idx
       ELSE /\ result' = [result EXCEPT !.original_message = "Attempting find and replace"]
            /\ exit' = exit
            /\ pc' = "fetch"
            /\ idx' = 1
    /\ UNCHANGED <<module, check_mode, quip_urls, source_url, prepend, quota,
                   dest_list, src_dict, get_htmls, destination_list, calls>>

\* `not parsed_src`: parsed_src is a tuple of two items, whatever they are
NotParsedSrc(parsed_src) == FALSE

\* quip_paste: parsed_src = parse_quip_url(source_url); if not parsed_src: ...
ParseSource ==
    /\ module = Paste
    /\ pc = "parse_dest"
    /\ idx > Len(quip_urls)
    /\ LET parsed_src == parse_quip_url(source_url)
       IN  IF parsed_src.raises
           THEN /\ exit' = Raise("IndexError")
                /\ pc' = "done"
                /\ UNCHANGED <<idx, src_dict, result>>
           ELSE IF NotParsedSrc(parsed_src)
           THEN /\ result' = [result EXCEPT !.original_message =
                                  "Failed to identify a Quip document ID"]
                /\ exit' = FailJson("The source document ID could not be parsed from provided source URL")
                /\ pc' = "done"
                /\ UNCHANGED <<idx, src_dict>>
           ELSE /\ src_dict' = [base |-> parsed_src.base, id |-> parsed_src.id]
                /\ result' = [result EXCEPT !.original_message = "Pasting to: "]
                /\ exit' = exit
                /\ pc' = "fetch"
                /\ idx' = 1
    /\ UNCHANGED <<module, check_mode, quip_urls, source_url, prepend, quota,
                   dest_list, get_htmls, destination_list, calls>>

\* The loop running over the ids from the last one to the first.
NextIdBackwards(ids, n) == ids[Len(ids) - n + 1]

\* `for id in quip_ids` / `for doc_id in destination_doc_ids`: the id of a turn
NextId(ids, n) == ids[n]

\* get_quip_html (quip_update_cell): one iteration of its loop.  HTTPError is
\* caught and raised again; any other error of urlopen is not caught at all.
FetchUpdateCell ==
    /\ module = UpdateCell
    /\ pc = "fetch"
    /\ idx <= Len(dest_list)
    /\ \E resp \in FetchResponses, retry \in RetryAfters :
         LET id == NextId(dest_list, idx)
         IN  /\ calls' = Append(calls, Call("fetch", id, resp, quota, retry, 0, None, 0, ""))
             /\ IF resp.kind # "response"
                THEN /\ exit' = Raise(resp.kind)
                     /\ pc' = "done"
                     /\ UNCHANGED <<idx, get_htmls>>
                ELSE /\ get_htmls' = DictSet(get_htmls, id,
                                             IF resp.has_html THEN resp.html ELSE "failed")
                     /\ idx' = idx + 1
                     /\ UNCHANGED <<pc, exit>>
    /\ quota' = Spend(quota)
    /\ UNCHANGED <<module, check_mode, quip_urls, source_url, prepend, dest_list,
                   src_dict, destination_list, result>>

\* get_destination_HTML (quip_paste): one iteration of its loop.  Only
\* HTTPError is caught; with the quota under the threshold the code reads
\* `result.headers` of the decoded JSON dict, an AttributeError.
FetchPaste ==
    /\ module = Paste
    /\ pc = "fetch"
    /\ idx <= Len(dest_list)
    /\ \E resp \in FetchResponses, retry \in RetryAfters :
         LET doc_id == NextId(dest_list, idx)
         IN  /\ calls' = Append(calls, Call("fetch", doc_id, resp, quota, retry, 0, None, 0, ""))
             /\ IF resp.kind = "HTTPError"
                THEN /\ get_htmls' = DictSet(get_htmls, doc_id, "failed")
                     /\ idx' = idx + 1
                     /\ UNCHANGED <<pc, exit>>
                ELSE IF resp.kind = "URLError"
                THEN /\ exit' = Raise("URLError")
                     /\ pc' = "done"
                     /\ UNCHANGED <<idx, get_htmls>>
                ELSE IF quota < RateLimitFloor
                THEN /\ exit' = Raise("AttributeError")
                     /\ pc' = "done"
                     /\ UNCHANGED <<idx, get_htmls>>
                ELSE IF ~resp.has_html
                THEN /\ exit' = Raise("KeyError")
                     /\ pc' = "done"
                     /\ UNCHANGED <<idx, get_htmls>>
                ELSE /\ get_htmls' = DictSet(get_htmls, doc_id,
                                             IF resp.html # "" THEN resp.html ELSE "failed")
                     /\ idx' = idx + 1
                     /\ UNCHANGED <<pc, exit>>
    /\ quota' = Spend(quota)
    /\ UNCHANGED <<module, check_mode, quip_urls, source_url, prepend, dest_list,
                   src_dict, destination_list, result>>

\* failed_htmls / dest_htmls: the items of get_htmls that are / are not "failed"
IsFailed(item) == item.v = "failed"

IsFetched(item) == item.v # "failed"

\* The failed items taken in the opposite order.
failed_htmls_reversed(htmls) ==
    LET f == SelectSeq(htmls, IsFailed)
    IN  [n \in 1..Len(f) |-> f[Len(f) - n + 1]]

failed_htmls(htmls) == SelectSeq(htmls, IsFailed)

dest_htmls(htmls) == SelectSeq(htmls, IsFetched)

\* "quip.com/{}".format(k), with the suffix quip_paste adds
DocLabel(m, k, suffix) ==
    IF m = Paste THEN <<"quip.com/", k, suffix>> ELSE <<"quip.com/", k>>

\* "quip.com/{}#{}".format(k, anchor), with the suffix quip_paste adds to a failure
AnchorLabel(k, anchor, suffix) ==
    <<"quip.com/", k, "#">> \o Str(anchor) \o (IF suffix = "" THEN <<>> ELSE <<suffix>>)

RECURSIVE AppendFailed(_, _, _)
AppendFailed(list, failed, m) ==
    IF failed = <<>> THEN list
    ELSE AppendFailed(AppendTo(list, Entry(DocLabel(m, Head(failed).k, " - failed to get HTML"),
                                           "FetchFailed")),
                      Tail(failed), m)

\* for doc in failed_htmls.items(): result["unsuccessful"].append(...)
RecordFailedHtmls ==
    /\ pc = "fetch"
    /\ idx > Len(dest_list)
    /\ result' = [result EXCEPT !.unsuccessful =
                      AppendFailed(@, failed_htmls(get_htmls), module)]
    /\ pc' = "locate"
    /\ idx' = 1
    /\ UNCHANGED <<module, check_mode, quip_urls, source_url, prepend, quota,
                   dest_list, src_dict, get_htmls, destination_list, exit, calls>>

\* quip_update_cell: for k, v in dest_htmls.items(): one iteration
LocateCell ==
    /\ module = UpdateCell
    /\ pc = "locate"
    /\ idx <= Len(dest_htmls(get_htmls))
    /\ LET item == dest_htmls(get_htmls)[idx]
           cell_id_found == get_cell_id(item.v, Target)
       IN  IF ~Truthy(cell_id_found)
           THEN /\ result' = [result EXCEPT !.unsuccessful =
                       AppendTo(@, Entry(DocLabel(module, item.k, ""), "AnchorNotFound"))]
                /\ destination_list' = destination_list
           ELSE /\ destination_list' = Append(destination_list,
                                              [k |-> item.k, v |-> cell_id_found])
                /\ result' = result
    /\ idx' = idx + 1
    /\ UNCHANGED <<module, check_mode, quip_urls, source_url, prepend, quota, pc,
                   dest_list, src_dict, get_htmls, exit, calls>>

\* quip_paste: for k, v in dest_htmls.items(): one iteration
LocateHeading ==
    /\ module = Paste
    /\ pc = "locate"
    /\ idx <= Len(dest_htmls(get_htmls))
    /\ LET item == dest_htmls(get_htmls)[idx]
           found == HeadingLookup(item.v, Target)
       IN  IF found.raised
           THEN /\ result' = [result EXCEPT !.unsuccessful =
                       AppendTo(@, Entry(DocLabel(module, item.k, " - target header not found"),
                                         "AnchorNotFound"))]
                /\ destination_list' = destination_list
           ELSE /\ destination_list' = Append(destination_list,
                                              [k |-> item.k, v |-> found.id])
                /\ result' = result
    /\ idx' = idx + 1
    /\ UNCHANGED <<module, check_mode, quip_urls, source_url, prepend, quota, pc,
                   dest_list, src_dict, get_htmls, exit, calls>>

\* The code between the two loops (markdown_replace / append) keeps the lists.
PreparePost ==
    /\ pc = "locate"
    /\ idx > Len(dest_htmls(get_htmls))
    /\ pc' = "post"
    /\ idx' = 1
    /\ UNCHANGED <<module, check_mode, quip_urls, source_url, prepend, quota,
                   dest_list, src_dict, get_htmls, destination_list, result, exit, calls>>

\* The replacement of the first ";" only.
ReplaceFirstOnly(section_id) ==
    [n \in 1..Len(section_id) |->
        IF section_id[n] = ";" /\ \A m \in 1..(n - 1) : section_id[m] # ";"
        THEN "_" ELSE section_id[n]]

\* section_id.replace(";", "_")
Replace(section_id) ==
    [n \in 1..Len(section_id) |-> IF section_id[n] = ";" THEN "_" ELSE section_id[n]]

\* edit_document: section_id = None if not section_id else section_id.replace(";", "_")
SentSectionId(section_id) == IF ~Truthy(section_id) THEN None ELSE Replace(section_id)

\* _fetch_json as post_changes of quip_update_cell sees it: the decoded JSON, the
\* error_description of an HTTP error, both judged by `if result`, or the
\* HTTPError raised again when its body has no error_description.
EditOutcome(resp) ==
    IF resp.kind = "response" THEN (IF resp.json = "thread" THEN "success" ELSE "fail")
    ELSE IF resp.kind = "HTTPError" /\ resp.desc THEN "success"
    ELSE "raise"

\* quip_update_cell: for destination in destination_list: one iteration
\* (post_changes, edit_document with operation=4, _fetch_json, the report)
PostUpdateCell ==
    /\ module = UpdateCell
    /\ pc = "post"
    /\ idx <= Len(destination_list)
    /\ \E resp \in PostResponses, retry \in RetryAfters :
         LET destination == destination_list[idx]
             k == destination.k
             outcome == EditOutcome(resp)
         IN  /\ calls' = Append(calls, Call("post", k, resp, quota, retry, 0,
                                            SentSectionId(destination.v), 4, ""))
             /\ IF outcome = "raise"
                THEN /\ exit' = Raise(resp.kind)
                     /\ pc' = "done"
                     /\ UNCHANGED <<idx, result>>
                ELSE /\ result' =
                          IF outcome = "fail"
                          THEN [result EXCEPT !.unsuccessful =
                                   AppendTo(@, Entry(DocLabel(module, k, ""), "WriteFailed"))]
                          ELSE [result EXCEPT !.successful =
                                   AppendTo(@, Entry(AnchorLabel(k, destination.v, ""), "Success"))]
                     /\ idx' = idx + 1
                     /\ UNCHANGED <<pc, exit>>
    /\ quota' = Spend(quota)
    /\ UNCHANGED <<module, check_mode, quip_urls, source_url, prepend, dest_list,
                   src_dict, get_htmls, destination_list>>

\* append left True whatever prepend says.
AppendAlways(p) == TRUE

\* if prepend: append = False else: append = True
AppendOf(p) == ~p

\* pend = 3 if not append else 2
Pend(append) == IF ~append THEN 3 ELSE 2

\* quip_paste: for destination in destination_list: one iteration
\* (post_changes with its rate-limit sleep, the report).  post_changes turns
\* every HTTPError into "fail" itself, so the `except HTTPError` around its
\* call in run_module is never entered.
PostPaste ==
    /\ module = Paste
    /\ pc = "post"
    /\ idx <= Len(destination_list)
    /\ \E resp \in PostResponses, retry \in RetryAfters :
         LET destination == destination_list[idx]
             k == destination.k
             slept == IF resp.kind = "response" /\ quota < RateLimitFloor THEN retry ELSE 0
         IN  /\ calls' = Append(calls, Call("post", k, resp, quota, retry, slept,
                                            Str(destination.v), Pend(AppendOf(prepend)),
                                            src_dict.id))
             /\ IF resp.kind = "URLError"
                THEN /\ exit' = Raise("URLError")
                     /\ pc' = "done"
                     /\ UNCHANGED <<idx, result>>
                ELSE /\ result' =
                          IF resp.kind = "response" /\ resp.code = 200
                          THEN [result EXCEPT !.successful =
                                   AppendTo(@, Entry(AnchorLabel(k, destination.v, ""), "Success"))]
                          ELSE [result EXCEPT !.unsuccessful =
                                   AppendTo(@, Entry(AnchorLabel(k, destination.v, " - POST failed"),
                                                     "WriteFailed"))]
                     /\ idx' = idx + 1
                     /\ UNCHANGED <<pc, exit>>
    /\ quota' = Spend(quota)
    /\ UNCHANGED <<module, check_mode, quip_urls, source_url, prepend, dest_list,
                   src_dict, get_htmls, destination_list>>

\* The test written with >= instead of >.
SucceededOrNone(success_int) == success_int >= 0

\* if success_int > 0
Succeeded(success_int) == success_int > 0

\* `quip_urls == "fail me"` compares a list with a str; `source_url == "fail me"`
FailMe == module = Paste /\ source_url = UrlFailMe

\* The end of run_module, from success_int = len(result["successful"]) on
Finalize ==
    /\ pc = "post"
    /\ idx > Len(destination_list)
    /\ LET success_int == Len(result.successful)
       IN  IF Succeeded(success_int)
           THEN /\ result' = [result EXCEPT
                       !.changed = TRUE,
                       !.original_message =
                           IF module = Paste THEN "Pasting to: successful" ELSE @,
                       !.message = [count |-> success_int, total |-> Len(quip_urls),
                                    text |-> "Quip documents were updated successfully"]]
                /\ exit' = IF FailMe THEN FailJson("You requested this to fail")
                                     ELSE ExitJson
           ELSE /\ result' = [result EXCEPT
                       !.changed = FALSE,
                       !.original_message =
                           IF module = Paste THEN "No valid destinations identified"
                                             ELSE "Failed to find and replace",
                       !.message = [count |-> success_int, total |-> Len(quip_urls),
                                    text |-> "were updated successfully"]]
                /\ exit' = FailJson("No Quip documents were successfully updated")
    /\ pc' = "done"
    /\ UNCHANGED <<module, check_mode, quip_urls, source_url, prepend, quota, idx,
                   dest_list, src_dict, get_htmls, destination_list, calls>>

Next ==
    \/ CheckMode
    \/ ParseDest
    \/ NoDestinations
    \/ ParseSource
    \/ FetchUpdateCell
    \/ FetchPaste
    \/ RecordFailedHtmls
    \/ LocateCell
    \/ LocateHeading
    \/ PreparePost
    \/ PostUpdateCell
    \/ PostPaste
    \/ Finalize

Spec == Init /\ [][Next]_vars

-----------------------------------------------------------------------------
(* Vocabulary of the properties                                             *)

\* The run has handed a report to Ansible.
Reported == exit.via \in {"exit_json", "fail_json"}

\* The run went past check mode and handed over its report.
BatchReported == Reported /\ ~check_mode

Crashed == exit.via = "exception"

\* What identifies an input reference in the report: the reference itself when
\* it does not resolve, the document id when it does.
KeyOfUrl(url) ==
    LET p == parse_quip_url(url)
    IN  IF Resolved(p) THEN [url |-> <<>>, doc |-> p.id] ELSE [url |-> url, doc |-> ""]

KeyOfEntry(e) ==
    IF e.reason = "ReferenceUnparseable" THEN [url |-> e.label, doc |-> ""]
    ELSE [url |-> <<>>, doc |-> e.label[2]]

InputKeys == [n \in 1..Len(quip_urls) |-> KeyOfUrl(quip_urls[n])]

Keys(list) == [n \in 1..Len(list) |-> KeyOfEntry(list[n])]

\* The position of the first of the input references (keys) to a document.
FirstPos(keys, doc) ==
    LET hits == {n \in 1..Len(keys) : keys[n].doc = doc}
    IN  IF hits = {} THEN 0 ELSE CHOOSE n \in hits : \A m \in hits : n <= m

\* a can be had from b by dropping items of b.
RECURSIVE IsSubseq(_, _)
IsSubseq(a, b) ==
    IF a = <<>> THEN TRUE
    ELSE IF b = <<>> THEN FALSE
    ELSE IF Head(a) = Head(b) THEN IsSubseq(Tail(a), Tail(b))
    ELSE IsSubseq(a, Tail(b))

\* The document ids of the input references that resolve, in input order.
RECURSIVE ResolvedIds(_)
ResolvedIds(urls) ==
    IF urls = <<>> THEN <<>>
    ELSE LET p == parse_quip_url(Head(urls))
         IN  (IF Resolved(p) THEN <<p.id>> ELSE <<>>) \o ResolvedIds(Tail(urls))

-----------------------------------------------------------------------------
(* C1 *)

\* C1: a batch run that hands over its report has one entry per input
\* reference, repeated references included: len(successful) +
\* len(unsuccessful) = len(input references).
C1_OneEntryPerReference ==
    (pc = "done" /\ BatchReported) =>
        Len(result.successful) + Len(result.unsuccessful) = Len(quip_urls)

-----------------------------------------------------------------------------
(* C2 *)

\* C2: in every report a run emits (exit_json or fail_json, check mode and
\* the early failure included) changed is true iff successful is non-empty.
C2_ChangedIffSuccessful ==
    Reported => (result.changed <=> Len(result.successful) > 0)

\* A report of a run that updated a document and failed on another one.
C2_Witness ==
    /\ exit.via = "exit_json"
    /\ result.changed
    /\ result.successful # <<>>
    /\ result.unsuccessful # <<>>

-----------------------------------------------------------------------------
(* C3 *)

\* Every input reference has its entry in the unsuccessful list.
AllInUnsuccessful ==
    LET keys == InputKeys
    IN  \A n \in 1..Len(keys) :
            \E m \in 1..Len(result.unsuccessful) :
                KeyOfEntry(result.unsuccessful[m]) = keys[n]

\* C3: a run past check mode that ends with no success is reported with
\* fail_json and its report lists every input reference as unsuccessful; a run
\* with at least one success is reported with exit_json.
C3_FailedIffNoSuccess ==
    (pc = "done" /\ BatchReported) =>
        /\ result.successful = <<>> => (exit.via = "fail_json" /\ AllInUnsuccessful)
        /\ result.successful # <<>> => exit.via = "exit_json"

-----------------------------------------------------------------------------
(* C4 *)

\* C4 as stated: within each list the entries follow the order of the input
\* references, whatever the failure reasons.
C4_InputOrder ==
    LET keys == InputKeys
    IN  /\ IsSubseq(Keys(result.unsuccessful), keys)
        /\ IsSubseq(Keys(result.successful), keys)

StageRank(reason) ==
    CASE reason = "ReferenceUnparseable" -> 1
      [] reason = "FetchFailed" -> 2
      [] reason = "AnchorNotFound" -> 3
      [] reason = "WriteFailed" -> 4
      [] OTHER -> 5

\* The entries of a list follow the first input reference to their documents.
ByFirstReference(list, keys) ==
    \A j, k \in 1..Len(list) :
        (j < k /\ list[j].reason = list[k].reason
               /\ list[j].reason # "ReferenceUnparseable")
            => FirstPos(keys, KeyOfEntry(list[j]).doc)
                   < FirstPos(keys, KeyOfEntry(list[k]).doc)

IsUnparseable(e) == e.reason = "ReferenceUnparseable"

\* C4 amended: outcomes are appended stage by stage.  successful follows the
\* input order; unsuccessful holds the unparseable references first, then the
\* fetch failures, then the documents without anchor, then the write failures,
\* and within each of these groups the entries follow the input order.
C4_StageThenInputOrder ==
    LET keys == InputKeys
    IN  /\ ByFirstReference(result.successful, keys)
        /\ IsSubseq(Keys(result.successful), keys)
        /\ \A j, k \in 1..Len(result.unsuccessful) :
              j < k => StageRank(result.unsuccessful[j].reason)
                           <= StageRank(result.unsuccessful[k].reason)
        /\ ByFirstReference(result.unsuccessful, keys)
        /\ IsSubseq(Keys(SelectSeq(result.unsuccessful, IsUnparseable)), keys)

\* An unparseable reference given after a document is listed before it.
C4_Witness ==
    /\ pc = "done"
    /\ Len(quip_urls) = 2
    /\ Resolved(parse_quip_url(quip_urls[1]))
    /\ Len(result.unsuccessful) = 2
    /\ result.unsuccessful[1].reason = "ReferenceUnparseable"
    /\ result.unsuccessful[2].reason \in {"FetchFailed", "AnchorNotFound", "WriteFailed"}

-----------------------------------------------------------------------------
(* C5 *)

\* C5 as stated: a document given before another one has its mutation request
\* issued before the other one is fetched.
C5_DocumentByDocument ==
    LET keys == InputKeys
    IN  \A j, k \in 1..Len(calls) :
            (j < k /\ calls[j].op = "fetch" /\ calls[k].op = "post")
                => ~(FirstPos(keys, calls[k].id) < FirstPos(keys, calls[j].id))

\* C5 amended: the remote calls are issued one at a time and stage by stage:
\* first one fetch per resolved reference, in input order, then, once every
\* reference is fetched, the mutation requests in input order.
C5_StageByStage ==
    LET ids == ResolvedIds(quip_urls)
        keys == InputKeys
    IN  calls # <<>> =>
            /\ \A j \in 1..Len(calls) :
                  calls[j].op = "fetch" => (j <= Len(ids) /\ calls[j].id = ids[j])
            /\ \A k \in 1..Len(calls) :
                  calls[k].op = "post" =>
                      (k > Len(ids) /\ \A j \in 1..Len(ids) : calls[j].op = "fetch")
            /\ \A j, k \in 1..Len(calls) :
                  (j < k /\ calls[j].op = "post" /\ calls[k].op = "post")
                      => FirstPos(keys, calls[j].id) < FirstPos(keys, calls[k].id)

\* Two documents, both fetched before either is mutated.
C5_Witness ==
    /\ Len(calls) = 4
    /\ calls[1].op = "fetch" /\ calls[2].op = "fetch"
    /\ calls[3].op = "post" /\ calls[4].op = "post"
    /\ calls[1].id # calls[2].id

-----------------------------------------------------------------------------
(* C6 *)

\* C6: no error raised by a gateway call (fetch or mutation) leaves
\* run_module: the run goes on to its report and the document is recorded as
\* FetchFailed or WriteFailed.
C6_GatewayErrorsStayLocal ==
    ~(Crashed /\ exit.msg \in {"HTTPError", "URLError"})

-----------------------------------------------------------------------------
(* C7 *)

\* The remote service answered the mutation request with a success response.
SuccessResponse(call) == call.kind = "response" /\ call.code \in 200..299

\* C7: a document is in successful only if its mutation request was answered
\* with a success response; after any other answer it is in unsuccessful as
\* WriteFailed.
C7_SuccessOnlyOnSuccessResponse ==
    \A j \in 1..Len(calls) :
        (calls[j].op = "post" /\ ~SuccessResponse(calls[j]) /\ ~Crashed /\ pc # "post")
            => /\ \A n \in 1..Len(result.successful) :
                     KeyOfEntry(result.successful[n]).doc # calls[j].id
               /\ \E n \in 1..Len(result.unsuccessful) :
                     /\ result.unsuccessful[n].reason = "WriteFailed"
                     /\ KeyOfEntry(result.unsuccessful[n]).doc = calls[j].id

-----------------------------------------------------------------------------
(* C8 *)

\* A fetch that failed in transport or whose response has no html field.
FailedFetch(call) ==
    call.op = "fetch" /\ (call.kind # "response" \/ ~call.has_html)

\* C8: after a failed fetch the run goes on; at the report the document of a
\* fetch that failed and was not made again is in unsuccessful as FetchFailed
\* and no mutation request was issued for it.
C8_FailedFetchIsClassified ==
    /\ (calls # <<>> /\ FailedFetch(calls[Len(calls)])) => ~Crashed
    /\ (pc = "done" /\ BatchReported) =>
          \A j \in 1..Len(calls) :
              (FailedFetch(calls[j])
                   /\ \A k \in (j + 1)..Len(calls) :
                          ~(calls[k].op = "fetch" /\ calls[k].id = calls[j].id))
                  => /\ \E n \in 1..Len(result.unsuccessful) :
                           /\ result.unsuccessful[n].reason = "FetchFailed"
                           /\ KeyOfEntry(result.unsuccessful[n]).doc = calls[j].id
                     /\ \A k \in 1..Len(calls) :
                           ~(calls[k].op = "post" /\ calls[k].id = calls[j].id)

-----------------------------------------------------------------------------
(* C9 *)

\* The input references the destination loop has dealt with so far.
Handled ==
    IF pc = "check_mode" \/ check_mode THEN {}
    ELSE IF pc = "parse_dest" THEN 1..(idx - 1)
    ELSE IF exit = Raise("IndexError") THEN 1..idx
    ELSE 1..Len(quip_urls)

\* C9: a reference the resolver cannot turn into a complete (host, id) pair
\* is appended to unsuccessful as ReferenceUnparseable, no remote call is
\* issued for it, and the run goes on with the remaining references.
C9_UnparseableIsRecorded ==
    /\ exit # Raise("IndexError")
    /\ calls # <<>> =>
          LET ids == Range(ResolvedIds(quip_urls))
          IN  \A j \in 1..Len(calls) : calls[j].id \in ids
    /\ \A n \in Handled :
          ~Resolved(parse_quip_url(quip_urls[n]))
              => \E m \in 1..Len(result.unsuccessful) :
                     /\ result.unsuccessful[m].reason = "ReferenceUnparseable"
                     /\ result.unsuccessful[m].label = quip_urls[n]

-----------------------------------------------------------------------------
(* C10 *)

\* A step of the chain of get_cell_id fails: no node with exactly the target
\* text, no enclosing table cell, or no span with an id in that cell.
ChainFails(html, findstring) ==
    LET tree == BeautifulSoup(html)
        loc == FindString(tree, findstring)
        td == IF loc = 0 THEN 0 ELSE FindParent(tree, loc, "td")
    IN  \/ loc = 0
        \/ td = 0
        \/ ~\E n \in 1..Len(tree) :
               /\ tree[n].tag = "span"
               /\ IsDescendant(tree, n, td)
               /\ tree[n].id # None

\* C10: when a step of the chain fails get_cell_id returns None, so the
\* document gets no entry in destination_list and no mutation request.
C10_NotFoundIsNone ==
    module = UpdateCell =>
        /\ \A n \in 1..Len(destination_list) :
              ~ChainFails(DictGet(get_htmls, destination_list[n].k), Target)
        /\ \A j \in 1..Len(calls) :
              calls[j].op = "post" => ~ChainFails(DictGet(get_htmls, calls[j].id), Target)

-----------------------------------------------------------------------------
(* C11 *)

\* The loop over dest_htmls has dealt with every fetched document.
LocateDone ==
    \/ pc = "post"
    \/ pc = "done" /\ Reported
    \/ pc = "done" /\ calls # <<>> /\ calls[Len(calls)].op = "post"

\* The fetched documents the loop over dest_htmls has dealt with so far.
Located ==
    LET fetched == dest_htmls(get_htmls)
    IN  IF LocateDone THEN Range(fetched)
        ELSE IF pc = "locate" THEN {fetched[n] : n \in 1..(idx - 1)}
        ELSE {}

\* The ids of the spans that lie in a table cell together with a node whose
\* text is exactly the target.
CellAnchors(html, findstring) ==
    LET tree == BeautifulSoup(html)
    IN  {tree[s].id : s \in
            {s \in 1..Len(tree) :
                /\ tree[s].tag = "span"
                /\ tree[s].id # None
                /\ \E t \in 1..Len(tree) :
                      /\ tree[t].tag = "#text"
                      /\ tree[t].text = findstring
                      /\ FindParent(tree, t, "td") # 0
                      /\ IsDescendant(tree, s, FindParent(tree, t, "td"))}}

TextOccurs(html, findstring) ==
    LET tree == BeautifulSoup(html)
    IN  \E t \in 1..Len(tree) : tree[t].tag = "#text" /\ tree[t].text = findstring

\* C11: when the exact target text occurs in a table cell that holds a span
\* with an id, also next to other occurrences or other spans, get_cell_id
\* returns the id of such a span; when the text does not occur it returns None.
C11_CellAnchorIsFound ==
    module = UpdateCell =>
        \A item \in Located :
            /\ CellAnchors(item.v, Target) # {} =>
                  \E n \in 1..Len(destination_list) :
                      /\ destination_list[n].k = item.k
                      /\ destination_list[n].v \in CellAnchors(item.v, Target)
            /\ ~TextOccurs(item.v, Target) =>
                  \A n \in 1..Len(destination_list) : destination_list[n].k # item.k

-----------------------------------------------------------------------------
(* C12 *)

\* The heading a lookup is expected to end on: of the headings that enclose
\* the first node whose text is the target, the nearest of level 1, else the
\* nearest of level 2, else the nearest of level 3; 0 when there is none.
EnclosingHeading(tree, findstring) ==
    LET hits == {t \in 1..Len(tree) : tree[t].tag = "#text" /\ tree[t].text = findstring}
        Nearest(t, h) ==
            LET anc == {a \in 1..Len(tree) : tree[a].tag = h /\ IsDescendant(tree, t, a)}
            IN  IF anc = {} THEN 0 ELSE CHOOSE a \in anc : \A b \in anc : b <= a
    IN  IF hits = {} THEN 0
        ELSE LET first == CHOOSE t \in hits : \A u \in hits : t <= u
             IN  IF Nearest(first, "h1") # 0 THEN Nearest(first, "h1")
                 ELSE IF Nearest(first, "h2") # 0 THEN Nearest(first, "h2")
                 ELSE Nearest(first, "h3")

-----------------------------------------------------------------------------
(* C13 *)

\* C13: after every answered remote call that reports a remaining quota under
\* the floor the run sleeps for at least the reported Retry-After and goes on
\* normally; after one that reports the floor or more it does not sleep.
C13_PacedUnderFloor ==
    /\ \A j \in 1..Len(calls) :
          calls[j].kind = "response" =>
              IF calls[j].remaining < RateLimitFloor
              THEN calls[j].slept >= calls[j].retry_after
              ELSE calls[j].slept = 0
    /\ exit # Raise("AttributeError")

-----------------------------------------------------------------------------
(* C14 *)

\* The anchor that run_module resolved for a document.
AnchorOf(doc) ==
    destination_list[CHOOSE n \in 1..Len(destination_list) : destination_list[n].k = doc].v

\* C14: every edit request of quip_update_cell carries the resolved anchor id
\* with each ";" turned into "_" and every other character kept; an id without
\* ";" goes out unchanged, and replacing again changes nothing.
C14_SeparatorSanitized ==
    module = UpdateCell =>
        \A j \in 1..Len(calls) :
            calls[j].op = "post" =>
                LET anchor == AnchorOf(calls[j].id)
                    sent == calls[j].section_id
                IN  /\ Len(sent) = Len(anchor)
                    /\ \A n \in 1..Len(anchor) :
                          sent[n] = (IF anchor[n] = ";" THEN "_" ELSE anchor[n])
                    /\ (\A n \in 1..Len(anchor) : anchor[n] # ";") => sent = anchor
                    /\ Replace(Replace(anchor)) = Replace(anchor)
                    /\ Replace(sent) = sent

\* An edit request went out for an anchor id that holds ";".
C14_Witness ==
    /\ module = UpdateCell
    /\ \E j \in 1..Len(calls) :
          /\ calls[j].op = "post"
          /\ AnchorOf(calls[j].id) = <<"a", ";", "b", ";", "c">>
          /\ calls[j].section_id = <<"a", "_", "b", "_", "c">>

-----------------------------------------------------------------------------
(* C15 *)

\* The two values of `location` that post_changes chooses between: 2 posts
\* after the section, 3 before it ("False will PREPEND changes").
AfterSection == 2

BeforeSection == 3

\* C15: every live-paste request of a quip_paste run carries the code for
\* "before the anchor" when prepend is true and the code for "after the
\* anchor" when it is false, the same for all documents and no third value.
C15_LocationFollowsPrepend ==
    module = Paste =>
        \A j \in 1..Len(calls) :
            calls[j].op = "post" =>
                /\ calls[j].location = (IF prepend THEN BeforeSection ELSE AfterSection)
                /\ calls[j].location \in {AfterSection, BeforeSection}
                /\ \A i \in 1..Len(calls) :
                      calls[i].op = "post" => calls[i].location = calls[j].location

\* A run with prepend set sent its requests for two documents.
C15_Witness ==
    /\ module = Paste
    /\ prepend
    /\ \E i, j \in 1..Len(calls) :
          /\ calls[i].op = "post" /\ calls[j].op = "post"
          /\ calls[i].id # calls[j].id
          /\ calls[i].location = BeforeSection
          /\ calls[j].location = BeforeSection

-----------------------------------------------------------------------------
(* C16 *)

\* The ids that the elements of a markup carry.
IdsIn(html) ==
    LET tree == BeautifulSoup(html)
    IN  {tree[n].id : n \in {n \in 1..Len(tree) : tree[n].id # None}}

\* C16: a fetched document without the target is reported as not found and
\* never written to; a write request goes only to a document that was fetched
\* and it names an anchor id that this document's markup holds.
C16_WritesOnlyToResolvedAnchors ==
    /\ \A item \in Located :
          ~TextOccurs(item.v, Target) =>
              /\ \E n \in 1..Len(result.unsuccessful) :
                    /\ result.unsuccessful[n].reason = "AnchorNotFound"
                    /\ result.unsuccessful[n].label[2] = item.k
              /\ \A j \in 1..Len(calls) : ~(calls[j].op = "post" /\ calls[j].id = item.k)
    /\ \A j \in 1..Len(calls) :
          calls[j].op = "post" =>
              /\ DictHas(get_htmls, calls[j].id)
              /\ DictGet(get_htmls, calls[j].id) # "failed"
              /\ \E id \in IdsIn(DictGet(get_htmls, calls[j].id)) :
                    calls[j].section_id = (IF module = UpdateCell THEN Replace(id) ELSE id)

-----------------------------------------------------------------------------
(* C17 *)

\* C17: a quip_paste run whose source_url does not resolve to a host and a
\* document id issues no remote call at all, and the report it hands over is
\* the failure "The source document ID could not be parsed from provided
\* source URL".
C17_UnresolvedSourceStopsRun ==
    (module = Paste /\ ~Resolved(parse_quip_url(source_url))) =>
        /\ calls = <<>>
        /\ BatchReported =>
              exit = FailJson("The source document ID could not be parsed from provided source URL")

-----------------------------------------------------------------------------
(* C18 *)

IsFetchCall(c) == c.op = "fetch"

IsPostCall(c) == c.op = "post"

\* C18 as stated: over a run every document is fetched at most once and gets at
\* most one write request, also when it is referenced more than once.
C18_OncePerDocument ==
    \A i, j \in 1..Len(calls) :
        (calls[i].op = calls[j].op /\ calls[i].id = calls[j].id) => i = j

\* C18: every input reference is fetched at most once, in input order and
\* without a second try, so a document is fetched as many times as it is
\* referenced and never more; every document gets at most one write request,
\* and only after the fetches.
C18_OncePerReference ==
    calls # <<>> =>
        LET ids == ResolvedIds(quip_urls)
            fetches == SelectSeq(calls, IsFetchCall)
            posts == SelectSeq(calls, IsPostCall)
        IN  /\ Len(fetches) <= Len(ids)
            /\ \A j \in 1..Len(fetches) : fetches[j].id = ids[j]
            /\ \A i, j \in 1..Len(posts) : posts[i].id = posts[j].id => i = j
            /\ \A j \in 1..Len(posts) : \E i \in 1..Len(fetches) : fetches[i].id = posts[j].id
            /\ calls = fetches \o posts

\* A run over two references to one document fetched it twice, wrote to it
\* once and handed over its report.
C18_Witness ==
    /\ BatchReported
    /\ quip_urls = <<UrlD1, UrlD1>>
    /\ Len(SelectSeq(calls, IsFetchCall)) = 2
    /\ Len(SelectSeq(calls, IsPostCall)) = 1

====
